---- MODULE Spec2Model ----
(***************************************************************************)
(* PhotoPal realtime path (src/app.py): the /offer signaling endpoint,     *)
(* _handle_offer with its datachannel and track handlers, and the          *)
(* per-track recv_loop that analyses frames and sends throttled tips.      *)
(*                                                                         *)
(* Units.  Time is counted in quarter seconds (the 0.5 s throttle is 2).   *)
(* luma is counted in hundredths (0.45 is 45).  Angles are whole degrees   *)
(* (HoughLines is called with a resolution of 3.14159/180 and the loop     *)
(* divides by the same 3.14159/180); tilt_deg, a mean of at most 8 whole   *)
(* degrees, is counted in 1/840 degree so that the mean is exact.          *)
(*                                                                         *)
(* Scheduling.  offer() makes a fresh event loop per request, runs         *)
(* _handle_offer on it and closes it in its finally clause.  Handlers and  *)
(* recv_loop tasks of a session therefore take steps only while that       *)
(* request is inside run_until_complete (LoopRunning); when the library    *)
(* delivers tracks, channels and frames within that time is left open.     *)
(***************************************************************************)
EXTENDS Integers, Sequences, FiniteSets

\* ------------------------------------------------------------------ bounds
\* MaxTracks, MaxChannels, MaxFrames and MaxCloseCauses count the events of
\* one run, over all its sessions
MaxSessions == 2
MaxTracks == 2
MaxChannels == 2
MaxFrames == 2
MaxTime == 6
MaxLines == 2
MaxCloseCauses == 2

\* ------------------------------------------------------- program constants
\* (now - last_sent) > 0.5, in quarter seconds
SendInterval == 2
\* 0.45 <= luma <= 0.65, in hundredths
LumaLow == 45
LumaHigh == 65
\* tilt_deg > 7, in degrees
TiltLimit == 7
\* lines[:8]
MaxStrongLines == 8
\* last_sent = 0.0
InitialLastSent == 0

\* 1/840 degree: 840 is divisible by every line count 1..8
DegScale == 3 * 5 * 7 * 8

Sessions == 1..MaxSessions
None == 0

\* the longest time between two readings of the clock: one tick more than
\* the throttle interval
MaxStep == SendInterval + 1

\* time.time() at the first request: seconds since the epoch, far above 0.5
ClockStart == SendInterval + 1

VARIABLES
    clock,         \* the latest reading of time.time()
    hs,            \* per session: where offer()/_handle_offer stands
    remoteDesc,    \* per session: type of pc's remote description, or "none"
    localDesc,     \* per session: type of pc.localDescription, or "none"
    resp,          \* per session: the HTTP response of offer()
    tips_channel,  \* per session: the nonlocal tips_channel (None = 0)
    nchans,        \* per session: data channels the peer has opened so far
    tipsState,     \* per session: readyState of the channel tips_channel names
    tracks,        \* per session: the tracks delivered, each with its recv_loop task
    frames,        \* per session: the frames track.recv() returned, in order
    sent,          \* per session: messages handed to a channel's send(), in order
    started,       \* per session: the clock when its offer arrived
    disconnects    \* per session: close causes raised by the peer or the transport

vars == <<clock, hs, remoteDesc, localDesc, resp, tips_channel, nchans,
          tipsState, tracks, frames, sent, started, disconnects>>

\* ------------------------------------------------------------- heuristics
Abs(x) == IF x < 0 THEN -x ELSE x

Min2(a, b) == IF a < b THEN a ELSE b

\* tilt = min(abs(deg - 0), abs(deg - 180), abs(deg - 360))
Tilt(deg) == Min2(Abs(deg - 0), Min2(Abs(deg - 180), Abs(deg - 360)))

RECURSIVE SumTilt(_)
SumTilt(ls) == IF ls = <<>> THEN 0 ELSE Tilt(Head(ls)) + SumTilt(Tail(ls))

\* lines[:8]
Strongest(lines) == SubSeq(lines, 1, Min2(Len(lines), MaxStrongLines))

\* tilt_deg = 0.0, or sum(angs) / len(angs) when lines were detected
TiltDeg(lines) ==
    IF Strongest(lines) = <<>> THEN 0
    ELSE (SumTilt(Strongest(lines)) * DegScale) \div Len(Strongest(lines))

\* variant: the boundaries 0.45 and 0.65 left out of the good band
BaseTipStrict(luma) ==
    IF LumaLow < luma /\ luma < LumaHigh THEN "good"
    ELSE IF luma < LumaLow THEN "dark" ELSE "bright"

\* the conditional expression choosing the base tip
BaseTip(luma) ==
    IF LumaLow <= luma /\ luma <= LumaHigh THEN "good"
    ELSE IF luma < LumaLow THEN "dark" ELSE "bright"

\* variant: the leveling tip already at exactly 7 degrees
LevelTipInclusive(tilt_deg) == tilt_deg >= TiltLimit * DegScale

\* if tilt_deg > 7: tip += " Horizon looks tilted; ..."
LevelTip(tilt_deg) == tilt_deg > TiltLimit * DegScale

\* the tip of a message: the base tip, then the leveling tip when it is added
Tip(luma, tilt_deg) ==
    IF LevelTip(tilt_deg) THEN <<BaseTip(luma), "level">> ELSE <<BaseTip(luma)>>

\* variant: the throttle without the test of tips_channel
ShouldSendUnchecked(ch, now, last_sent) == (now - last_sent) > SendInterval

\* if tips_channel and (now - last_sent) > 0.5
ShouldSend(ch, now, last_sent) == ch # None /\ (now - last_sent) > SendInterval

\* ---------------------------------------------------------------- inputs
LumaValues == {0, LumaLow - 1, LumaLow, 55, LumaHigh, LumaHigh + 1, 100}

ThetaValues == {0, TiltLimit, TiltLimit + 1, 90, 180 - TiltLimit, 180}

LineSeqs == UNION {[1..n -> ThetaValues] : n \in 0..MaxLines}

\* every frame the analysis accepts, and one that frame.to_ndarray rejects
GoodFrames == [ok : {TRUE}, luma : LumaValues, lines : LineSeqs]

BadFrame == [ok |-> FALSE, luma |-> 0, lines |-> <<>>]

\* the frames of the lifecycle specification: one well exposed level frame
\* and one malformed frame
PlainFrames ==
    {[ok |-> TRUE, luma |-> 55, lines |-> <<>>],
     BadFrame}

\* what now = time.time() can return: no less than the reading before it
Readings == clock..Min2(clock + MaxStep, MaxTime)

OfferTypes == {"offer", "answer", "bogus"}

TrackKinds == {"video", "audio"}

\* ----------------------------------------------------------------- state
RECURSIVE SumTo(_, _)
SumTo(f, n) == IF n = 0 THEN 0 ELSE f[n] + SumTo(f, n - 1)

\* a count summed over the sessions of the run
Total(f) == SumTo(f, MaxSessions)

\* the event loop of offer() runs from new_event_loop() to loop.close()
LoopRunning(s) == hs[s] \in {"have-remote-offer", "answer-created", "stable"}

\* the task asyncio.create_task(recv_loop()) made for track k of session s
Task(s, k) == tracks[s][k]

\* the recv_loop tasks on_track has created for session s
Loops(s) == {k \in 1..Len(tracks[s]) : tracks[s][k].task # "none"}

sigVars == <<hs, remoteDesc, localDesc, resp, started>>

chanVars == <<tips_channel, nchans, tipsState>>

Init ==
    /\ clock = ClockStart
    /\ hs = [s \in Sessions |-> "idle"]
    /\ remoteDesc = [s \in Sessions |-> "none"]
    /\ localDesc = [s \in Sessions |-> "none"]
    /\ resp = [s \in Sessions |-> [status |-> 0, type |-> "none", session |-> None]]
    /\ tips_channel = [s \in Sessions |-> None]
    /\ nchans = [s \in Sessions |-> 0]
    /\ tipsState = [s \in Sessions |-> "none"]
    /\ tracks = [s \in Sessions |-> <<>>]
    /\ frames = [s \in Sessions |-> <<>>]
    /\ sent = [s \in Sessions |-> <<>>]
    /\ started = [s \in Sessions |-> 0]
    /\ disconnects = [s \in Sessions |-> 0]

\* an exception leaves offer() through its finally clause: the loop is closed
\* and the server answers with an error status
Fails(s) ==
    /\ hs' = [hs EXCEPT ![s] = "error"]
    /\ resp' = [resp EXCEPT ![s] = [status |-> 500, type |-> "none", session |-> None]]

\* ------------------------------------------------------------- signaling
\* offer() up to the end of pc.setRemoteDescription(offer); requests are
\* served one at a time (threaded=False)
OfferRequest(s, sdpOk, typ) ==
    /\ hs[s] = "idle"
    /\ \A r \in Sessions : r < s => hs[r] \in {"returned", "error"}
    /\ started' = [started EXCEPT ![s] = clock]
    /\ IF typ = "offer" /\ sdpOk
       THEN /\ hs' = [hs EXCEPT ![s] = "have-remote-offer"]
            /\ remoteDesc' = [remoteDesc EXCEPT ![s] = typ]
            /\ UNCHANGED resp
       ELSE /\ Fails(s)
            /\ UNCHANGED remoteDesc
    /\ UNCHANGED <<clock, localDesc, chanVars, tracks, frames, sent, disconnects>>

\* answer = await pc.createAnswer()
CreateAnswer(s, ok) ==
    /\ hs[s] = "have-remote-offer"
    /\ IF ok
       THEN /\ hs' = [hs EXCEPT ![s] = "answer-created"]
            /\ UNCHANGED resp
       ELSE Fails(s)
    /\ UNCHANGED <<clock, remoteDesc, localDesc, started, chanVars, tracks, frames,
                   sent, disconnects>>

\* await pc.setLocalDescription(answer)
SetLocalDescription(s, ok) ==
    /\ hs[s] = "answer-created"
    /\ IF ok
       THEN /\ hs' = [hs EXCEPT ![s] = "stable"]
            /\ localDesc' = [localDesc EXCEPT ![s] = "answer"]
            /\ UNCHANGED resp
       ELSE /\ Fails(s)
            /\ UNCHANGED localDesc
    /\ UNCHANGED <<clock, remoteDesc, started, chanVars, tracks, frames, sent,
                   disconnects>>

\* variant: the answer returned without waiting for setLocalDescription
ReturnAnswerEarly(s) ==
    /\ hs[s] \in {"answer-created", "stable"}
    /\ hs' = [hs EXCEPT ![s] = "returned"]
    /\ resp' = [resp EXCEPT ![s] =
                  [status |-> 200, type |-> "answer", session |-> s]]
    /\ UNCHANGED <<clock, remoteDesc, localDesc, started, chanVars, tracks, frames,
                   sent, disconnects>>

\* return pc.localDescription; jsonify({"sdp": ..., "type": answer.type});
\* finally: loop.close()
ReturnAnswer(s) ==
    /\ hs[s] = "stable"
    /\ hs' = [hs EXCEPT ![s] = "returned"]
    /\ resp' = [resp EXCEPT ![s] =
                  [status |-> 200, type |-> localDesc[s], session |-> s]]
    /\ UNCHANGED <<clock, remoteDesc, localDesc, started, chanVars, tracks, frames,
                   sent, disconnects>>

\* ------------------------------------------------------------ pc events
\* variant: tips_channel kept in one module-level global instead of the
\* closure of _handle_offer
OnDatachannelGlobal(s) ==
    /\ LoopRunning(s)
    /\ Total(nchans) < MaxChannels
    /\ nchans' = [nchans EXCEPT ![s] = @ + 1]
    /\ tips_channel' = [r \in Sessions |-> nchans[s] + 1]
    /\ tipsState' = [r \in Sessions |-> "open"]
    /\ UNCHANGED <<clock, sigVars, tracks, frames, sent, disconnects>>

\* on_datachannel(channel): tips_channel = channel
OnDatachannel(s) ==
    /\ LoopRunning(s)
    /\ Total(nchans) < MaxChannels
    /\ nchans' = [nchans EXCEPT ![s] = @ + 1]
    /\ tips_channel' = [tips_channel EXCEPT ![s] = nchans[s] + 1]
    /\ tipsState' = [tipsState EXCEPT ![s] = "open"]
    /\ UNCHANGED <<clock, sigVars, tracks, frames, sent, disconnects>>

\* on_track(track): a non-video track goes to MediaBlackhole().addTrack and
\* gets no task; the blackhole consumes a track only from its start(), which
\* nothing calls, so the track stays "added".  A video track gets
\* asyncio.create_task(recv_loop()), whose last_sent starts at 0.0
OnTrack(s, kind) ==
    /\ LoopRunning(s)
    /\ Total([r \in Sessions |-> Len(tracks[r])]) < MaxTracks
    /\ tracks' = [tracks EXCEPT ![s] = Append(@,
                    [kind |-> kind,
                     task |-> IF kind = "video" THEN "recv" ELSE "none",
                     err |-> "none",
                     last_sent |-> InitialLastSent,
                     blackhole |-> IF kind = "video" THEN "none" ELSE "added"])]
    /\ UNCHANGED <<clock, sigVars, chanVars, frames, sent, disconnects>>

\* ---------------------------------------------------------- environment
\* the peer closes the data channel tips_channel names: its readyState
\* leaves "open"
ChannelCloses(s) ==
    /\ LoopRunning(s)
    /\ tipsState[s] = "open"
    /\ tipsState' = [tipsState EXCEPT ![s] = "closed"]
    /\ UNCHANGED <<clock, sigVars, tips_channel, nchans, tracks, frames, sent,
                   disconnects>>

\* a pending track.recv() raises MediaStreamError: the loop has no handler
\* around it, so the exception ends the task
RecvRaises(tr) ==
    IF tr.task = "recv" THEN [tr EXCEPT !.task = "failed", !.err = "MediaStreamError"]
    ELSE tr

\* the remote video track k signals end-of-stream while its loop waits in
\* track.recv()
TrackEnds(s, k) ==
    /\ LoopRunning(s)
    /\ k \in 1..Len(tracks[s])
    /\ Task(s, k).task = "recv"
    /\ tracks' = [tracks EXCEPT ![s][k] = RecvRaises(@)]
    /\ UNCHANGED <<clock, sigVars, chanVars, frames, sent, disconnects>>

\* a close cause: the peer disconnects or the transport fails.  Every video
\* track ends and the channel closes; _handle_offer registers no handler for
\* it and nothing calls pc.close(), so no closure variable is touched.
CloseCause(s) ==
    /\ LoopRunning(s)
    /\ Total(disconnects) < MaxCloseCauses
    /\ disconnects' = [disconnects EXCEPT ![s] = @ + 1]
    /\ tracks' = [tracks EXCEPT ![s] = [k \in 1..Len(@) |-> RecvRaises(@[k])]]
    /\ tipsState' = [tipsState EXCEPT ![s] = IF @ = "none" THEN @ ELSE "closed"]
    /\ UNCHANGED <<clock, sigVars, tips_channel, nchans, frames, sent>>

\* -------------------------------------------------------------- recv_loop
\* the task stops on an exception nothing catches
Raise(s, k, e) ==
    /\ tracks' = [tracks EXCEPT ![s][k].task = "failed", ![s][k].err = e]
    /\ UNCHANGED sent

\* variant: the message built from the result kept from the iteration before
MessageOfPrevious(s, k, f, now) ==
    [t |-> now, frame |-> Len(frames[s]), track |-> k, chan |-> tips_channel[s],
     tip |-> Tip(f.luma, TiltDeg(f.lines)),
     luma |-> f.luma, tilt_deg |-> TiltDeg(f.lines)]

\* json.dumps({"tip": tip, "luma": ..., "tilt_deg": ...}) with the tip chosen
\* from luma and tilt_deg; t, frame, track and chan record when, from which
\* frame, by which loop and on which channel it was sent
Message(s, k, f, now) ==
    [t |-> now, frame |-> Len(frames[s]) + 1, track |-> k, chan |-> tips_channel[s],
     tip |-> Tip(f.luma, TiltDeg(f.lines)),
     luma |-> f.luma, tilt_deg |-> TiltDeg(f.lines)]

\* what the loop did with the frame track.recv() returned: whether a result
\* was computed from it and which (luma, tilt_deg), at which clock reading, by
\* which loop, and the channel reference and readyState the throttle saw
Analysed(s, k, f, now) ==
    [t |-> now, result |-> f.ok, track |-> k, chan |-> tips_channel[s],
     state |-> tipsState[s],
     luma |-> f.luma, tilt_deg |-> TiltDeg(f.lines)]

\* variant: tips_channel.send putting the message ahead of those sent before
ChannelSendFirst(q, msg) == <<msg>> \o q

\* tips_channel.send(msg): the message is handed to the channel after those
\* sent before it
ChannelSend(q, msg) == Append(q, msg)

\* variant: last_sent = now written on every iteration, outside the if
DropStamped(s, k, now) ==
    /\ tracks' = [tracks EXCEPT ![s][k].last_sent = now]
    /\ UNCHANGED sent

\* the throttle guard is false: the iteration ends without a send and without
\* a write to last_sent
Drop(s, k, now) == UNCHANGED <<tracks, sent>>

\* one iteration of the while loop, from the frame track.recv() returns to the
\* next await: analysis, now = time.time(), throttle, send
RecvFrame(s, k, f, now) ==
    /\ LoopRunning(s)
    /\ k \in 1..Len(tracks[s])
    /\ Task(s, k).task = "recv"
    /\ Total([r \in Sessions |-> Len(frames[r])]) < MaxFrames
    /\ IF ~f.ok
       THEN /\ frames' = [frames EXCEPT ![s] = Append(@, Analysed(s, k, f, clock))]
            /\ Raise(s, k, "FrameError")
            /\ UNCHANGED clock
       ELSE /\ frames' = [frames EXCEPT ![s] = Append(@, Analysed(s, k, f, now))]
            /\ clock' = now
            /\ IF ~ShouldSend(tips_channel[s], now, Task(s, k).last_sent)
               THEN Drop(s, k, now)
               ELSE IF tips_channel[s] = None
               THEN Raise(s, k, "AttributeError")
               ELSE IF tipsState[s] # "open"
               THEN Raise(s, k, "InvalidStateError")
               ELSE /\ sent' = [sent EXCEPT ![s] = ChannelSend(@, Message(s, k, f, now))]
                    /\ tracks' = [tracks EXCEPT ![s][k].last_sent = now]
    /\ UNCHANGED <<sigVars, chanVars, disconnects>>

\* --------------------------------------------------------- specifications
Next ==
    \/ \E s \in Sessions, sdpOk \in BOOLEAN, typ \in OfferTypes :
          OfferRequest(s, sdpOk, typ)
    \/ \E s \in Sessions, ok \in BOOLEAN : CreateAnswer(s, ok)
    \/ \E s \in Sessions, ok \in BOOLEAN : SetLocalDescription(s, ok)
    \/ \E s \in Sessions : ReturnAnswer(s)
    \/ \E s \in Sessions : OnDatachannel(s)
    \/ \E s \in Sessions, kind \in TrackKinds : OnTrack(s, kind)
    \/ \E s \in Sessions : ChannelCloses(s)
    \/ \E s \in Sessions, k \in 1..MaxTracks : TrackEnds(s, k)
    \/ \E s \in Sessions : CloseCause(s)
    \/ \E s \in Sessions, k \in 1..MaxTracks, f \in PlainFrames, now \in Readings :
          RecvFrame(s, k, f, now)

\* the lifecycle of sessions: signaling, events, failures, throttled sends
Spec == Init /\ [][Next]_vars

\* the tip of a message over the whole range of luma and tilt_deg: one
\* session whose handshake goes well, and the first frame of its first track,
\* drawn from every frame the analysis accepts
FirstFrame(f, now) == frames[1] = <<>> /\ RecvFrame(1, 1, f, now)

NextTip ==
    \/ OfferRequest(1, TRUE, "offer")
    \/ OnDatachannel(1)
    \/ OnTrack(1, "video")
    \/ \E f \in GoodFrames, now \in Readings : FirstFrame(f, now)

TipSpec == Init /\ [][NextTip]_vars

\* ------------------------------------------------------------ properties
Ceil(a, b) == (a + b - 1) \div b

\* the messages of session s, by position in the order they were sent
Sends(s) == 1..Len(sent[s])

\* C1: any two Advisory Messages of one session are at least the minimum
\* inter-send interval (0.5 s) apart.
C1_AtMostOneSendPerInterval ==
    \A s \in Sessions : \A i, j \in Sends(s) :
        i < j => sent[s][j].t - sent[s][i].t >= SendInterval

\* C2: by the time of its j-th send a session has lasted long enough for j
\* sends: j <= ceil(duration / 0.5), the duration counted from the arrival of
\* the offer and rounded up to the next clock tick.
C2_SendsWithinDurationBound ==
    \A s \in Sessions : \A j \in Sends(s) :
        j <= Ceil(sent[s][j].t - started[s] + 1, SendInterval)

\* C3: while no datachannel event has occurred in a session, nothing is sent
\* for it and no loop of it has failed in the throttle or the send: every
\* frame is analysed and its result dropped.
C3_NoChannelNoSend ==
    \A s \in Sessions :
        nchans[s] = 0 =>
            /\ sent[s] = <<>>
            /\ \A k \in Loops(s) :
                  Task(s, k).err \notin {"AttributeError", "InvalidStateError"}
            /\ \A i \in 1..Len(frames[s]) :
                  frames[s][i].chan = None /\
                  (frames[s][i].result \/ Task(s, frames[s][i].track).err = "FrameError")

\* a session without a channel whose loop has analysed two frames more than
\* the interval apart and still waits for the next one
C3_Witness ==
    \E s \in Sessions :
        /\ nchans[s] = 0
        /\ Len(frames[s]) = 2
        /\ frames[s][1].result /\ frames[s][2].result
        /\ frames[s][1].track = frames[s][2].track
        /\ frames[s][2].t - frames[s][1].t > SendInterval
        /\ Task(s, frames[s][1].track).task = "recv"
        /\ sent[s] = <<>>

\* C4: the base tip of every sent message is exactly one of three: good iff
\* 0.45 <= luma <= 0.65, dark iff luma < 0.45, bright iff luma > 0.65.
C4_BaseTipBands ==
    \A s \in Sessions : \A i \in Sends(s) :
        LET m == sent[s][i] IN
        /\ m.luma \in 0..100
        /\ m.tip[1] \in {"good", "dark", "bright"}
        /\ m.tip[1] = "good" <=> (45 <= m.luma /\ m.luma <= 65)
        /\ m.tip[1] = "dark" <=> m.luma < 45
        /\ m.tip[1] = "bright" <=> m.luma > 65

\* a message sent for luma exactly 0.65, with the good tip
C4_Witness ==
    \E s \in Sessions : \E i \in Sends(s) :
        sent[s][i].luma = 65 /\ sent[s][i].tip[1] = "good"

\* C5: the leveling tip follows the base tip of a sent message iff
\* tilt_deg > 7, whichever base tip it is, and the base tip stays first.
C5_LevelTipIffTilted ==
    \A s \in Sessions : \A i \in Sends(s) :
        LET m == sent[s][i] IN
        /\ m.tip[1] = BaseTip(m.luma)
        /\ Len(m.tip) \in {1, 2}
        /\ Len(m.tip) = 2 <=> m.tilt_deg > 7 * DegScale
        /\ Len(m.tip) = 2 => m.tip[2] = "level"

\* a message for a mean tilt between 7 and 8 degrees: the leveling tip
\* follows a base tip other than the good one
C5_Witness ==
    \E s \in Sessions : \E i \in Sends(s) :
        /\ sent[s][i].tilt_deg > 7 * DegScale
        /\ sent[s][i].tilt_deg < 8 * DegScale
        /\ sent[s][i].tip = <<"dark", "level">>

\* frames i..j of session s form a burst: each was analysed with an open
\* channel attached, no message of the session was sent in the 0.5 s before
\* frame i, and all of them came less than 0.5 s after frame i
Burst(s, i, j) ==
    /\ \A n \in i..j :
          /\ frames[s][n].result
          /\ frames[s][n].chan # None
          /\ frames[s][n].state = "open"
          /\ frames[s][n].t - frames[s][i].t < SendInterval
    /\ \A m \in Sends(s) :
          sent[s][m].frame < i => frames[s][i].t - sent[s][m].t > SendInterval

\* C6: a burst of frames produces exactly one message, that of its first
\* frame.
C6_BurstSendsExactlyOne ==
    \A s \in Sessions : \A i, j \in 1..Len(frames[s]) :
        (i <= j /\ Burst(s, i, j)) =>
            {sent[s][m].frame : m \in {n \in Sends(s) : sent[s][n].frame \in i..j}} = {i}

\* C7: end-of-stream ends the loop without an unhandled error.
C7_EndOfStreamExitsCleanly ==
    \A s \in Sessions : \A k \in Loops(s) : Task(s, k).err # "MediaStreamError"

\* C8: once a close cause has occurred and the request's loop is gone, the
\* release has run: the channel reference is dropped and no analyzer loop is
\* left waiting.
C8_CloseReleasesOnce ==
    \A s \in Sessions :
        (disconnects[s] >= 1 /\ ~LoopRunning(s)) =>
            /\ tips_channel[s] = None
            /\ \A k \in Loops(s) : Task(s, k).task # "recv"

\* C9: a session never has more than one Frame Analyzer loop.
C9_OneLoopPerSession ==
    \A s \in Sessions : Cardinality(Loops(s)) <= 1

\* C10: a request answered with success carries an answer of type "answer" for
\* its own session, whose remote offer and local answer are both set.
C10_AnswerMeansConnected ==
    \A s \in Sessions :
        /\ resp[s].status = 200 =>
              /\ resp[s].type = "answer"
              /\ resp[s].session = s
              /\ remoteDesc[s] = "offer"
              /\ localDesc[s] = "answer"
        /\ hs[s] = "returned" => resp[s].status = 200

\* the second request of a run answered with success
C10_Witness ==
    /\ hs[1] \in {"returned", "error"}
    /\ hs[2] = "returned"
    /\ resp[2].status = 200

\* C11: a request whose offer is malformed or whose handshake fails is answered
\* with a client error, and nothing created for it is left behind: no channel
\* reference and no analyzer loop still waiting for frames.
C11_FailureIsCleanClientError ==
    \A s \in Sessions :
        hs[s] = "error" =>
            /\ resp[s].status \in 400..499
            /\ tips_channel[s] = None
            /\ \A k \in Loops(s) : Task(s, k).task # "recv"

\* C12: a track that is not video gets no analyzer loop, no frame of it is
\* analysed, no message comes from it, and its data is being consumed.
C12_NonVideoDrained ==
    \A s \in Sessions : \A k \in 1..Len(tracks[s]) :
        tracks[s][k].kind # "video" =>
            /\ k \notin Loops(s)
            /\ \A i \in 1..Len(frames[s]) : frames[s][i].track # k
            /\ \A i \in Sends(s) : sent[s][i].track # k
            /\ tracks[s][k].blackhole = "started"

\* C13: a frame whose analysis fails is dropped and the loop goes on: no
\* analyzer loop is ended by the failure of a frame.
C13_FrameFailureKeepsLoop ==
    \A s \in Sessions : \A i \in 1..Len(frames[s]) :
        ~frames[s][i].result => Task(s, frames[s][i].track).err # "FrameError"

\* C14: while the connection itself has not failed, a send that fails is a
\* dropped message: no analyzer loop is ended by the failure of a send.
C14_SendFailureKeepsLoop ==
    \A s \in Sessions : \A k \in Loops(s) :
        disconnects[s] = 0 => Task(s, k).err # "InvalidStateError"

\* C15: after the answer of a session has been returned, a loop of it that
\* waits for a frame can still take the next frame its track delivers.
C15_LoopScheduledAfterAnswer ==
    \A s \in Sessions : \A k \in 1..MaxTracks :
        (/\ hs[s] = "returned"
         /\ disconnects[s] = 0
         /\ k \in Loops(s)
         /\ Task(s, k).task = "recv"
         /\ Total([r \in Sessions |-> Len(frames[r])]) < MaxFrames)
        => ENABLED (\E f \in PlainFrames, now \in Readings : RecvFrame(s, k, f, now))

\* C16: within a session the messages are handed to the channel in the order
\* in which their frames were analysed, whichever loops produced them.
C16_SendOrderIsAnalysisOrder ==
    \A s \in Sessions : \A i, j \in Sends(s) :
        i < j => sent[s][i].frame < sent[s][j].frame

\* a session with two messages produced by two different loops
C16_Witness ==
    \E s \in Sessions :
        /\ Len(sent[s]) = 2
        /\ sent[s][1].track # sent[s][2].track

\* C17: a step that sends a message has analysed a frame in that same step and
\* the message is derived from that frame (its clock reading, loop, luma and
\* tilt); so a result that was not sent in its own iteration is never sent.
C17_NoBuffering ==
    [][\A s \in Sessions :
          sent'[s] # sent[s] =>
              LET n == Len(frames'[s])
                  m == sent'[s][Len(sent'[s])]
              IN  /\ Len(sent'[s]) = Len(sent[s]) + 1
                  /\ SubSeq(sent'[s], 1, Len(sent[s])) = sent[s]
                  /\ n = Len(frames[s]) + 1
                  /\ SubSeq(frames'[s], 1, Len(frames[s])) = frames[s]
                  /\ m.frame = n
                  /\ frames'[s][n].result
                  /\ m.t = frames'[s][n].t
                  /\ m.track = frames'[s][n].track
                  /\ m.luma = frames'[s][n].luma
                  /\ m.tilt_deg = frames'[s][n].tilt_deg]_vars

\* a result dropped for want of a channel, then a channel, then a message from
\* the next frame: the only message of the session
C17_Witness ==
    \E s \in Sessions :
        /\ Len(frames[s]) = 2
        /\ frames[s][1].result /\ frames[s][1].chan = None
        /\ Len(sent[s]) = 1
        /\ sent[s][1].frame = 2

\* C18: every message of a session goes to the channel the session observed
\* first, whatever channels the peer opens later.
C18_SingleRoute ==
    \A s \in Sessions : \A i \in Sends(s) : sent[s][i].chan = 1

\* what belongs to session s: its handshake, its channel reference, its
\* tracks with their loops and last_sent, its frames and its messages
Own(s) ==
    <<hs[s], remoteDesc[s], localDesc[s], resp[s], tips_channel[s], nchans[s],
      tipsState[s], tracks[s], frames[s], sent[s], disconnects[s]>>

C20_LastSentFrame ==
    [][\A s \in Sessions :
          /\ \A k \in 1..Len(tracks[s]) :
                tracks'[s][k].last_sent # tracks[s][k].last_sent =>
                    LET m == sent'[s][Len(sent'[s])]
                        n == Len(frames'[s])
                    IN  /\ Len(sent'[s]) = Len(sent[s]) + 1
                        /\ sent'[s] = Append(sent[s], m)
                        /\ m.track = k
                        /\ m.t = tracks'[s][k].last_sent
                        /\ m.t = clock'
                        /\ n = Len(frames[s]) + 1
                        /\ m.frame = n
                        /\ frames'[s][n].t = m.t
          /\ (frames'[s] # frames[s] /\ sent'[s] = sent[s]) =>
                /\ \A k \in 1..Len(tracks[s]) :
                      tracks'[s][k].last_sent = tracks[s][k].last_sent
                /\ tips_channel'[s] = tips_channel[s]]_vars

\* a loop analysed a frame before any channel was attached and sent nothing;
\* its next frame, less than the interval later and with a channel attached,
\* was sent at once
C20_Witness ==
    \E s \in Sessions :
        /\ Len(frames[s]) = 2
        /\ frames[s][1].result /\ frames[s][1].chan = None
        /\ frames[s][2].track = frames[s][1].track
        /\ frames[s][2].t - frames[s][1].t < SendInterval
        /\ Len(sent[s]) = 1
        /\ sent[s][1].frame = 2
        /\ Task(s, frames[s][2].track).last_sent = frames[s][2].t

====
